---- MODULE Spec2Model ----
(***************************************************************************)
(* A block-oriented B+-tree index on a single file: node algorithms        *)
(* (types/node.rs), the block codec and the file-backed node store         *)
(* (types/file_store.rs), the second-chance cache                          *)
(* (types/second_chance_cache.rs) and the tree facade (types/tree.rs).     *)
(*                                                                         *)
(* Arrays of the source are 0-based; here an array is a sequence, so the   *)
(* source's slot i is element i+1.  Indices returned by binary_search and  *)
(* passed to insert_into_array are kept 0-based as in the source.          *)
(***************************************************************************)
EXTENDS Integers, Sequences, FiniteSets, TLC

\* ------------------------------------------------------------------ sizes

\* Half of the fanout: the fanout is even (main.rs rounds it down to an even
\* number), the model explores the smallest one first.
HalfS == 1

\* const S: usize, the fanout of Tree<T, S>, InnerNode<T, S>, LeafNode<T, S>.
S == 2 * HalfS

\* size_of::<SearchKey>() (i64) and size_of::<NodeIdent>() (i32), in bytes.
SEARCH_KEY_SIZE == 8

NODE_IDENT_SIZE == 4

\* main.rs: SIZE_PER_ENTRY, the bytes one key and one identifier take.
SIZE_PER_ENTRY == SEARCH_KEY_SIZE + NODE_IDENT_SIZE

\* file_store.rs: BLOCK_SIZE, the size of a file block in bytes.
BLOCK_SIZE == 128

\* second_chance_cache.rs: CACHE_SIZE, the capacity of the cache.
CACHE_SIZE == 4

\* second_chance_cache.rs: the cap of a cache entry's chances counter.
CHANCE_MAX == 8

\* node.rs, LeafNode::insert: the payload written for every key.
LEAF_PAYLOAD == 10

\* ------------------------------------------------------------ model bounds

\* Keys offered to insert and search are the non-zero keys -1, 1 .. MaxKey.
MaxKey == 3

\* The store allocates at most MaxNodes blocks.
MaxNodes == 6

\* At most MaxReads operations that change no node (a search, a duplicate
\* insert) are explored per run.
MaxReads == 1

Keys == {-1} \cup (1 .. MaxKey)

\* Payload identifiers offered to insert: the first insert of a key carries
\* FirstVal, a repeated insert any payload of Vals.
Vals == {7, 8}

FirstVal == CHOOSE v \in Vals : \A w \in Vals : v <= w

\* ------------------------------------------------------------------ arrays

Zeros(n) == [i \in 1 .. n |-> 0]

Min(a, b) == IF a < b THEN a ELSE b

\* slice[a..b] of the source (0-based, b exclusive).
Slice(arr, a, b) == SubSeq(arr, a + 1, b)

\* arr with its slots a..b (0-based, b exclusive) replaced by part.
WithSlice(arr, a, b, part) ==
    [i \in 1 .. Len(arr) |-> IF i > a /\ i <= b THEN part[i - a] ELSE arr[i]]

\* A binary search that reports the insertion point as a hit whenever it lies
\* inside the slice.
binary_search_insertion_point(slice, key) ==
    LET u == Cardinality({i \in 1 .. Len(slice) : slice[i] < key})
    IN  [ok |-> u < Len(slice), idx |-> u]

\* <[T]>::binary_search on a sorted slice without repetitions: Ok(position) of
\* the key, or Err(position where it would be inserted).
binary_search(slice, key) ==
    IF \E i \in 1 .. Len(slice) : slice[i] = key
    THEN [ok |-> TRUE, idx |-> (CHOOSE i \in 1 .. Len(slice) : slice[i] = key) - 1]
    ELSE [ok |-> FALSE, idx |-> Cardinality({i \in 1 .. Len(slice) : slice[i] < key})]

\* The loop of insert_into_array from slot i (0-based) with `hanging` in hand.
RECURSIVE insert_loop(_, _, _, _)
insert_loop(slice, i, hanging, empty) ==
    IF i >= Len(slice)
    THEN [slice |-> slice, over |-> <<hanging>>]
    ELSE LET tmp == slice[i + 1]
             put == [slice EXCEPT ![i + 1] = hanging]
         IN  IF tmp = empty
             THEN [slice |-> put, over |-> <<>>]
             ELSE insert_loop(put, i + 1, tmp, empty)

\* An insert_into_array that starts its cascade one slot too far right.
insert_into_array_one_right(slice, index, key, empty) ==
    insert_loop(slice, index + 1, key, empty)

\* insert_into_array: the slice after the cascade-shift and the overflow
\* (<<>> for None, <<x>> for Some(x)).
insert_into_array(slice, index, key, empty) == insert_loop(slice, index, key, empty)

\* ------------------------------------------------------------------- nodes

InnerNode(separators, children, size) ==
    [kind |-> "Inner", separators |-> separators, children |-> children, size |-> size]

LeafNode(keys, data_blocks, size) ==
    [kind |-> "Leaf", keys |-> keys, data_blocks |-> data_blocks, size |-> size]

\* A LeafNode::split that takes the left size of InnerNode::split,
\* target_size - 1.
LeafNode_split_as_inner(self, largest_key, largest_value) ==
    LET target_size == S \div 2
        right_seps_slice == Slice(self.keys, target_size, S)
        right_children_slice == Slice(self.data_blocks, target_size, S)
    IN  [self |-> LeafNode(WithSlice(self.keys, target_size, S, Zeros(S - target_size)),
                           WithSlice(self.data_blocks, target_size, S, Zeros(S - target_size)),
                           target_size - 1),
         root_sep |-> right_seps_slice[1],
         right_seps |->
            [WithSlice(Zeros(S), 0, target_size, right_seps_slice)
                EXCEPT ![target_size + 1] = largest_key],
         right_children |->
            [WithSlice(Zeros(S), 0, target_size, right_children_slice)
                EXCEPT ![target_size + 1] = largest_value]]

\* A LeafNode::split that leaves the moved keys and payloads in the left node.
LeafNode_split_unzeroed(self, largest_key, largest_value) ==
    LET target_size == S \div 2
        right_seps_slice == Slice(self.keys, target_size, S)
        right_children_slice == Slice(self.data_blocks, target_size, S)
    IN  [self |-> LeafNode(self.keys, self.data_blocks, target_size),
         root_sep |-> right_seps_slice[1],
         right_seps |->
            [WithSlice(Zeros(S), 0, target_size, right_seps_slice)
                EXCEPT ![target_size + 1] = largest_key],
         right_children |->
            [WithSlice(Zeros(S), 0, target_size, right_children_slice)
                EXCEPT ![target_size + 1] = largest_value]]

\* A LeafNode::split whose separator is the largest key of the left node.
LeafNode_split_sep_from_left(self, largest_key, largest_value) ==
    LET target_size == S \div 2
        right_seps_slice == Slice(self.keys, target_size, S)
        right_children_slice == Slice(self.data_blocks, target_size, S)
        root_sep == self.keys[target_size]
        right_seps ==
            [WithSlice(Zeros(S), 0, target_size, right_seps_slice)
                EXCEPT ![target_size + 1] = largest_key]
        right_children ==
            [WithSlice(Zeros(S), 0, target_size, right_children_slice)
                EXCEPT ![target_size + 1] = largest_value]
    IN  [self |-> LeafNode(WithSlice(self.keys, target_size, S, Zeros(S - target_size)),
                           WithSlice(self.data_blocks, target_size, S, Zeros(S - target_size)),
                           target_size),
         root_sep |-> root_sep,
         right_seps |-> right_seps,
         right_children |-> right_children]

\* LeafNode::split: the left node as updated, and (root_sep, right_seps,
\* right_children).
LeafNode_split(self, largest_key, largest_value) ==
    LET target_size == S \div 2
        right_seps_slice == Slice(self.keys, target_size, S)
        right_children_slice == Slice(self.data_blocks, target_size, S)
        root_sep == right_seps_slice[1]
        right_seps ==
            [WithSlice(Zeros(S), 0, target_size, right_seps_slice)
                EXCEPT ![target_size + 1] = largest_key]
        right_children ==
            [WithSlice(Zeros(S), 0, target_size, right_children_slice)
                EXCEPT ![target_size + 1] = largest_value]
    IN  [self |-> LeafNode(WithSlice(self.keys, target_size, S, Zeros(S - target_size)),
                           WithSlice(self.data_blocks, target_size, S, Zeros(S - target_size)),
                           target_size),
         root_sep |-> root_sep,
         right_seps |-> right_seps,
         right_children |-> right_children]

\* An InnerNode::split that leaves the pivot in the left node.
InnerNode_split_pivot_left(self, largest_key, largest_value) ==
    LET target_size == S \div 2
        right_seps_slice == Slice(self.separators, target_size - 1, S - 1)
        right_children_slice == Slice(self.children, target_size, S)
    IN  [self |-> InnerNode(WithSlice(self.separators, target_size, S - 1,
                                      Zeros(S - target_size - 1)),
                            WithSlice(self.children, target_size, S, Zeros(S - target_size)),
                            target_size - 1),
         root_sep |-> right_seps_slice[1],
         right_seps |->
            [WithSlice(Zeros(S), 0, target_size - 1, Slice(right_seps_slice, 1, target_size))
                EXCEPT ![target_size] = largest_key],
         right_children |->
            [WithSlice(Zeros(S), 0, target_size, right_children_slice)
                EXCEPT ![target_size + 1] = largest_value]]

\* An InnerNode::split that hands up the separator that did not fit instead
\* of the middle one.
InnerNode_split_sep_largest(self, largest_key, largest_value) ==
    LET target_size == S \div 2
        right_seps_slice == Slice(self.separators, target_size - 1, S - 1)
        right_children_slice == Slice(self.children, target_size, S)
    IN  [self |-> InnerNode(WithSlice(self.separators, target_size - 1, S - 1,
                                      Zeros(S - target_size)),
                            WithSlice(self.children, target_size, S, Zeros(S - target_size)),
                            target_size - 1),
         root_sep |-> largest_key,
         right_seps |->
            [WithSlice(Zeros(S), 0, target_size - 1, Slice(right_seps_slice, 1, target_size))
                EXCEPT ![target_size] = right_seps_slice[1]],
         right_children |->
            [WithSlice(Zeros(S), 0, target_size, right_children_slice)
                EXCEPT ![target_size + 1] = largest_value]]

\* An InnerNode::split that leaves the children moved to the right node in
\* the left node too.
InnerNode_split_children_kept(self, largest_key, largest_value) ==
    LET target_size == S \div 2
        right_seps_slice == Slice(self.separators, target_size - 1, S - 1)
        right_children_slice == Slice(self.children, target_size, S)
        root_sep == right_seps_slice[1]
        right_seps ==
            [WithSlice(Zeros(S), 0, target_size - 1, Slice(right_seps_slice, 1, target_size))
                EXCEPT ![target_size] = largest_key]
        right_children ==
            [WithSlice(Zeros(S), 0, target_size, right_children_slice)
                EXCEPT ![target_size + 1] = largest_value]
    IN  [self |-> InnerNode(WithSlice(self.separators, target_size - 1, S - 1,
                                      Zeros(S - target_size)),
                            self.children,
                            target_size - 1),
         root_sep |-> root_sep,
         right_seps |-> right_seps,
         right_children |-> right_children]

\* InnerNode::split.
InnerNode_split(self, largest_key, largest_value) ==
    LET target_size == S \div 2
        right_seps_slice == Slice(self.separators, target_size - 1, S - 1)
        right_children_slice == Slice(self.children, target_size, S)
        root_sep == right_seps_slice[1]
        right_seps ==
            [WithSlice(Zeros(S), 0, target_size - 1, Slice(right_seps_slice, 1, target_size))
                EXCEPT ![target_size] = largest_key]
        right_children ==
            [WithSlice(Zeros(S), 0, target_size, right_children_slice)
                EXCEPT ![target_size + 1] = largest_value]
    IN  [self |-> InnerNode(WithSlice(self.separators, target_size - 1, S - 1,
                                      Zeros(S - target_size)),
                            WithSlice(self.children, target_size, S, Zeros(S - target_size)),
                            target_size - 1),
         root_sep |-> root_sep,
         right_seps |-> right_seps,
         right_children |-> right_children]

\* ------------------------------------------------------------------- codec

\* i64::to_le_bytes / i32::to_le_bytes: the n low bytes of x, two's
\* complement, least significant first.
RECURSIVE to_le_bytes(_, _)
to_le_bytes(x, n) ==
    IF n = 0 THEN <<>>
    ELSE <<x % 256>> \o to_le_bytes((x - (x % 256)) \div 256, n - 1)

\* i64::from_le_bytes / i32::from_le_bytes: the signed value of the bytes.
RECURSIVE from_le_bytes(_)
from_le_bytes(b) ==
    IF Len(b) = 1
    THEN (IF b[1] >= 128 THEN b[1] - 256 ELSE b[1])
    ELSE b[1] + 256 * from_le_bytes(Tail(b))

\* The bytes of every entry of arr, n bytes each, in order.
RECURSIVE EncodeArray(_, _)
EncodeArray(arr, n) ==
    IF arr = <<>> THEN <<>>
    ELSE to_le_bytes(Head(arr), n) \o EncodeArray(Tail(arr), n)

\* count entries of n bytes each read from block at byte offset `index`.
DecodeArray(block, index, count, n) ==
    [i \in 1 .. count |->
        from_le_bytes(SubSeq(block, index + (i - 1) * n + 1, index + i * n))]

\* A size recovery whose loop stops one slot early (i < S - 1).
RECURSIVE LeadingNonZero_short(_, _)
LeadingNonZero_short(arr, i) ==
    IF i < S - 1 /\ arr[i + 1] # 0 THEN LeadingNonZero_short(arr, i + 1) ELSE i

\* The size a decoded node gets: the number of leading non-zero keys.
RECURSIVE LeadingNonZero(_, _)
LeadingNonZero(arr, i) ==
    IF i < S /\ arr[i + 1] # 0 THEN LeadingNonZero(arr, i + 1) ELSE i

\* to_bytes of both node kinds: S keys, then S identifiers, the rest zero.
NodeBytes(keys, idents) ==
    LET used == EncodeArray(keys, SEARCH_KEY_SIZE) \o EncodeArray(idents, NODE_IDENT_SIZE)
    IN  used \o Zeros(BLOCK_SIZE - Len(used))

InnerNode_to_bytes(self) == NodeBytes(self.separators, self.children)

LeafNode_to_bytes(self) == NodeBytes(self.keys, self.data_blocks)

InnerNode_from_bytes(block) ==
    LET separators == DecodeArray(block, 0, S, SEARCH_KEY_SIZE)
        children == DecodeArray(block, S * SEARCH_KEY_SIZE, S, NODE_IDENT_SIZE)
    IN  InnerNode(separators, children, LeadingNonZero(separators, 0))

LeafNode_from_bytes(block) ==
    LET keys == DecodeArray(block, 0, S, SEARCH_KEY_SIZE)
        data_blocks == DecodeArray(block, S * SEARCH_KEY_SIZE, S, NODE_IDENT_SIZE)
    IN  LeafNode(keys, data_blocks, LeadingNonZero(keys, 0))

\* NodeInstance::{Inner, Leaf} to its block, as get_node and flush encode it.
to_bytes(node) ==
    IF node.kind = "Inner" THEN InnerNode_to_bytes(node) ELSE LeafNode_to_bytes(node)

\* ------------------------------------------------------------------- cache

\* Cache::new: no entries.  A cache is a map ident -> CacheItem.
Cache_new == << >>

CacheItem(node, chances) == [node |-> node, chances |-> chances]

\* Cache::get_node on a present entry: its chances counter is bumped, up to
\* CHANCE_MAX; an absent entry leaves the cache as it is (None).
Cache_get_node(nodes, ident) ==
    IF ident \in DOMAIN nodes /\ nodes[ident].chances < CHANCE_MAX
    THEN [nodes EXCEPT ![ident].chances = @ + 1]
    ELSE nodes

\* The orders in which HashMap::iter_mut may visit the entries: the order is
\* fixed by the hasher's random keys, so any permutation may be the one.
RECURSIVE Orders(_)
Orders(ids) ==
    IF ids = {} THEN {<< >>}
    ELSE UNION {{<<x>> \o o : o \in Orders(ids \ {x})} : x \in ids}

IterOrders(nodes) == Orders(DOMAIN nodes)

\* The number of passes a sweep is followed for.  No counter exceeds
\* CHANCE_MAX, so a sweep that has selected nothing after CHANCE_MAX + 1
\* passes is one that never ends.
PassLimit == CHANCE_MAX + 1

\* A sweep that takes no chance from the entries it visits.
RECURSIVE page_out_keeps_chances(_, _, _, _)
page_out_keeps_chances(nodes, order, pos, pass) ==
    IF pass > PassLimit
    THEN [nodes |-> nodes, remove |-> 0, passes |-> pass]
    ELSE IF pos > Len(order)
    THEN page_out_keeps_chances(nodes, order, 1, pass + 1)
    ELSE IF nodes[order[pos]].chances > 0
         THEN page_out_keeps_chances(nodes, order, pos + 1, pass)
         ELSE [nodes |-> nodes, remove |-> order[pos], passes |-> pass]

\* The 'outer loop of Cache::cache_node: passes over the entries in `order`
\* from position pos of pass number `pass`, taking a chance from every entry
\* visited, until one with no chances left is met: the cache as swept, the
\* identifier to remove and the number of the pass that met it.  A sweep
\* still running after PassLimit passes is reported with remove = 0 (no
\* identifier is 0).
RECURSIVE page_out(_, _, _, _)
page_out(nodes, order, pos, pass) ==
    IF pass > PassLimit
    THEN [nodes |-> nodes, remove |-> 0, passes |-> pass]
    ELSE IF pos > Len(order)
    THEN page_out(nodes, order, 1, pass + 1)
    ELSE IF nodes[order[pos]].chances > 0
         THEN page_out([nodes EXCEPT ![order[pos]].chances = @ - 1], order, pos + 1, pass)
         ELSE [nodes |-> nodes, remove |-> order[pos], passes |-> pass]

Without(nodes, ident) == [i \in DOMAIN nodes \ {ident} |-> nodes[i]]

With(nodes, ident, item) ==
    [i \in DOMAIN nodes \cup {ident} |-> IF i = ident THEN item ELSE nodes[i]]

\* A cache_node that returns the entry its sweep selected but leaves it in
\* the cache.
cache_node_in_keeps_victim(nodes, cap, order, ident, node) ==
    IF Cardinality(DOMAIN nodes) = cap
    THEN LET swept == page_out(nodes, order, 1, 1)
         IN  IF swept.remove = 0
             THEN [nodes |-> swept.nodes, ret |-> <<>>, passes |-> swept.passes]
             ELSE [nodes |-> With(swept.nodes, ident, CacheItem(node, 1)),
                   ret |-> <<swept.remove, swept.nodes[swept.remove].node>>,
                   passes |-> swept.passes]
    ELSE [nodes |-> With(nodes, ident, CacheItem(node, 1)), ret |-> <<>>, passes |-> 0]

\* Cache::cache_node (CACHE_SIZE = cap) for one iteration order: the cache
\* afterwards, the displaced entry (<<>> for None, <<ident, node>> for Some)
\* and the passes its sweep took (0 without a sweep).  While the sweep has
\* selected nothing the call has not returned: nothing is removed or inserted.
cache_node_in(nodes, cap, order, ident, node) ==
    IF Cardinality(DOMAIN nodes) = cap
    THEN LET swept == page_out(nodes, order, 1, 1)
         IN  IF swept.remove = 0
             THEN [nodes |-> swept.nodes, ret |-> <<>>, passes |-> swept.passes]
             ELSE [nodes |-> With(Without(swept.nodes, swept.remove), ident,
                                  CacheItem(node, 1)),
                   ret |-> <<swept.remove, swept.nodes[swept.remove].node>>,
                   passes |-> swept.passes]
    ELSE [nodes |-> With(nodes, ident, CacheItem(node, 1)), ret |-> <<>>, passes |-> 0]

\* Cache::cache_node in a build whose CACHE_SIZE is cap: every outcome the
\* iteration order allows.
Cache_cache_node(nodes, cap, ident, node) ==
    IF Cardinality(DOMAIN nodes) = cap
    THEN {cache_node_in(nodes, cap, o, ident, node) : o \in IterOrders(nodes)}
    ELSE {cache_node_in(nodes, cap, << >>, ident, node)}

\* -------------------------------------------------------------- file store

\* A store is [cache, file, node_ctr] with, beside the fields of FileStore,
\* cap, the CACHE_SIZE of the build, and issued, the history of store_node:
\* issued[k] is the identifier returned for block k and the kind of the node
\* given.  The file is a map from block index to block, over the blocks below
\* its end.

Abs(i) == IF i < 0 THEN -i ELSE i

ZeroBlock == Zeros(BLOCK_SIZE)

\* FileStore::get_block: <<block>>, or <<>> when the read fails (the block
\* lies beyond the end of the file).
get_block(file, index) ==
    IF index \in DOMAIN file THEN <<file[index]>> ELSE <<>>

MaxOf(a, b) == IF a > b THEN a ELSE b

\* FileStore::set_block: the block written at its index; a write beyond the
\* end leaves a hole of zero bytes before it.
set_block(file, index, block) ==
    LET last == IF DOMAIN file = {} THEN index
                ELSE MaxOf(index, CHOOSE m \in DOMAIN file : \A k \in DOMAIN file : k <= m)
    IN  [i \in 0 .. last |->
            IF i = index THEN block
            ELSE IF i \in DOMAIN file THEN file[i] ELSE ZeroBlock]

\* FileStore::new on a fresh file.
FileStore_new(cap) ==
    [cache |-> Cache_new, file |-> << >>, node_ctr |-> 0, cap |-> cap, issued |-> << >>,
     latest |-> << >>, wb_fails |-> FALSE, wb_failed |-> FALSE, passes |-> 0]

\* A get_node that drops what cache_node displaced without writing it.
write_back_dropped(file, ret) == file

\* The write-back of what cache_node displaced (get_node drops set_block's
\* result).
write_back(file, ret) ==
    IF ret = <<>> THEN file
    ELSE set_block(file, Abs(ret[1]), to_bytes(ret[2]))

\* A get_node that writes the displaced node at the block of the identifier
\* asked for, not at that of the identifier displaced.
get_node_miss_unshadowed(st, ident, block) ==
    LET node == IF ident < 0 THEN InnerNode_from_bytes(block)
                ELSE LeafNode_from_bytes(block)
    IN  {[st |-> [st EXCEPT !.cache = Cache_get_node(c.nodes, ident),
                            !.file = IF c.ret = <<>> THEN st.file
                                     ELSE set_block(st.file, Abs(ident), to_bytes(c.ret[2]))],
          err |-> "none"] : c \in Cache_cache_node(st.cache, st.cap, ident, node)}

\* The tail of FileStore::get_node on a miss, once the block is read.  When
\* st.wb_fails, the write of the displaced node fails (set_block returns
\* WriteFailed and the block keeps its content); get_node drops that result
\* and goes on.  st.wb_failed remembers that a write-back has failed, and
\* st.passes the passes of the latest sweep.  A cache_node that does not
\* return gives the outcome NoReturn.
get_node_miss(st, ident, block) ==
    LET node == IF ident < 0 THEN InnerNode_from_bytes(block)
                ELSE LeafNode_from_bytes(block)
        swept(c) == IF c.passes > 0 THEN c.passes ELSE st.passes
    IN  {IF c.passes > PassLimit
         THEN [st |-> [st EXCEPT !.cache = c.nodes, !.passes = c.passes],
               err |-> "NoReturn"]
         ELSE [st |-> IF c.ret # <<>> /\ st.wb_fails
                      THEN [st EXCEPT !.cache = Cache_get_node(c.nodes, ident),
                                      !.passes = swept(c),
                                      !.wb_fails = FALSE,
                                      !.wb_failed = TRUE]
                      ELSE [st EXCEPT !.cache = Cache_get_node(c.nodes, ident),
                                      !.passes = swept(c),
                                      !.file = write_back(st.file, c.ret)],
               err |-> "none"] : c \in Cache_cache_node(st.cache, st.cap, ident, node)}

\* FileStore::get_node: the outcomes [st, err]; when err = "none" the handle
\* returned designates st.cache[ident].node.
FileStore_get_node(st, ident) ==
    IF ident \in DOMAIN st.cache
    THEN {[st |-> [st EXCEPT !.cache = Cache_get_node(st.cache, ident)], err |-> "none"]}
    ELSE LET block == get_block(st.file, Abs(ident))
         IN  IF block = <<>>
             THEN {[st |-> st, err |-> "InvalidReference"]}
             ELSE get_node_miss(st, ident, block[1])

\* m with key k bound to v.
Put(m, k, v) == [x \in DOMAIN m \cup {k} |-> IF x = k THEN v ELSE m[x]]

\* A write through the handle get_node returned for ident; st.latest keeps
\* the version of every node as last written by the program.
Mutate(st, ident, node) ==
    [st EXCEPT !.cache[ident].node = node, !.latest = Put(@, ident, node)]

\* A store_node that returns the block index unsigned for inner nodes too.
FileStore_store_node_unsigned(st, node) ==
    LET ident == st.node_ctr + 1
    IN  [st |-> [st EXCEPT !.node_ctr = ident,
                           !.file = set_block(st.file, ident, to_bytes(node)),
                           !.issued = Append(@, [ident |-> ident, kind |-> node.kind,
                                                  node |-> node]),
                           !.latest = Put(@, ident, node)],
         ident |-> ident]

\* FileStore::store_node: the store afterwards and the identifier issued.
FileStore_store_node(st, node) ==
    LET ident == st.node_ctr + 1
        signed == IF node.kind = "Inner" THEN -ident ELSE ident
    IN  [st |-> [st EXCEPT !.node_ctr = ident,
                           !.file = set_block(st.file, ident, to_bytes(node)),
                           !.issued = Append(@, [ident |-> signed, kind |-> node.kind,
                                                  node |-> node]),
                           !.latest = Put(@, signed, node)],
         ident |-> signed]

\* --------------------------------------------------------- node algorithms

\* InsertionResult: Ok, NodeOverflow(sep, ident), Error, InsertError(err),
\* DuplicateKey; Panic stands for the panics of the insert functions.
Res(tag) == [tag |-> tag, sep |-> 0, ident |-> 0, err |-> "none"]

NodeOverflow(sep, ident) == [tag |-> "NodeOverflow", sep |-> sep, ident |-> ident, err |-> "none"]

InsertError(err) == [tag |-> "InsertError", sep |-> 0, ident |-> 0, err |-> err]

Out(st, res) == [st |-> st, res |-> res]

\* A LeafNode::insert that returns NodeOverflow with the identifier the right
\* node is going to get, without storing the right node.
leaf_insert_at_unpublished(st, self_id, key, data) ==
    LET current_node == st.cache[self_id].node
        found == binary_search(Slice(current_node.keys, 0, current_node.size), key)
        insertion_index == found.idx
        k == insert_into_array(Slice(current_node.keys, 0, S), insertion_index, key, 0)
        v == insert_into_array(Slice(current_node.data_blocks, 0, S), insertion_index,
                               LEAF_PAYLOAD, 0)
        grown == LeafNode(k.slice, v.slice, current_node.size + 1)
        halves == LeafNode_split(grown, k.over[1], v.over[1])
    IN  IF found.ok THEN Out(st, Res("DuplicateKey"))
        ELSE IF k.over = <<>> /\ v.over = <<>>
             THEN Out(Mutate(st, self_id, grown), Res("Ok"))
        ELSE IF k.over = <<>> \/ v.over = <<>>
             THEN Out(Mutate(st, self_id, grown), Res("Error"))
        ELSE Out(Mutate(st, self_id, halves.self),
                 NodeOverflow(halves.root_sep, st.node_ctr + 1))

\* LeafNode::insert from the binary search on: st is the store after
\* get_node, whose handle designates st.cache[self_id].node.
leaf_insert_at(st, self_id, key, data) ==
    LET current_node == st.cache[self_id].node
        found == binary_search(Slice(current_node.keys, 0, current_node.size), key)
        insertion_index == found.idx
        k == insert_into_array(Slice(current_node.keys, 0, S), insertion_index, key, 0)
        v == insert_into_array(Slice(current_node.data_blocks, 0, S), insertion_index,
                               LEAF_PAYLOAD, 0)
        grown == LeafNode(k.slice, v.slice, current_node.size + 1)
        halves == LeafNode_split(grown, k.over[1], v.over[1])
        stored == FileStore_store_node(
                      Mutate(st, self_id, halves.self),
                      LeafNode(halves.right_seps, halves.right_children, S \div 2 + 1))
    IN  IF found.ok THEN Out(st, Res("DuplicateKey"))
        ELSE IF k.over = <<>> /\ v.over = <<>>
             THEN Out(Mutate(st, self_id, grown), Res("Ok"))
        ELSE IF k.over = <<>> \/ v.over = <<>>
             THEN Out(Mutate(st, self_id, grown), Res("Error"))
        ELSE Out(stored.st, NodeOverflow(halves.root_sep, stored.ident))

\* LeafNode::insert: every outcome [st, res].
LeafNode_insert(st, self_id, key, data) ==
    {IF g.err # "none" THEN Out(g.st, InsertError(g.err))
     ELSE IF g.st.cache[self_id].node.kind # "Leaf" THEN Out(g.st, Res("Panic"))
     ELSE leaf_insert_at(g.st, self_id, key, data) :
        g \in FileStore_get_node(st, self_id)}

\* An InnerNode::insert whose separator cascade runs over the whole array,
\* separators[0..S], instead of separators[0..S - 1].
inner_fix_up_whole_array(st, self_id, insertion_index, new_sep, new_node_ident) ==
    LET current_node == st.cache[self_id].node
        k == insert_into_array(Slice(current_node.separators, 0, S),
                               insertion_index, new_sep, 0)
        v == insert_into_array(Slice(current_node.children, 0, S),
                               insertion_index + 1, new_node_ident, 0)
        grown == InnerNode(k.slice, v.slice, current_node.size + 1)
        halves == InnerNode_split(grown, k.over[1], v.over[1])
        stored == FileStore_store_node(
                      Mutate(st, self_id, halves.self),
                      InnerNode(halves.right_seps, halves.right_children, S \div 2))
    IN  IF k.over = <<>> /\ v.over = <<>>
        THEN Out(Mutate(st, self_id, grown), Res("Ok"))
        ELSE IF k.over = <<>> \/ v.over = <<>>
             THEN Out(Mutate(st, self_id, grown), Res("Error"))
        ELSE Out(stored.st, NodeOverflow(halves.root_sep, stored.ident))

\* InnerNode::insert after the child returned NodeOverflow(new_sep,
\* new_node_ident): st is the store after the second get_node.
inner_fix_up(st, self_id, insertion_index, new_sep, new_node_ident) ==
    LET current_node == st.cache[self_id].node
        k == insert_into_array(Slice(current_node.separators, 0, S - 1),
                               insertion_index, new_sep, 0)
        v == insert_into_array(Slice(current_node.children, 0, S),
                               insertion_index + 1, new_node_ident, 0)
        grown == InnerNode(WithSlice(current_node.separators, 0, S - 1, k.slice),
                           v.slice, current_node.size + 1)
        halves == InnerNode_split(grown, k.over[1], v.over[1])
        stored == FileStore_store_node(
                      Mutate(st, self_id, halves.self),
                      InnerNode(halves.right_seps, halves.right_children, S \div 2))
    IN  IF k.over = <<>> /\ v.over = <<>>
        THEN Out(Mutate(st, self_id, grown), Res("Ok"))
        ELSE IF k.over = <<>> \/ v.over = <<>>
             THEN Out(Mutate(st, self_id, grown), Res("Error"))
        ELSE Out(stored.st, NodeOverflow(halves.root_sep, stored.ident))

\* The second half of InnerNode::insert: what it makes of the child's result.
inner_after_child(child, self_id, insertion_index) ==
    IF child.res.tag # "NodeOverflow" THEN {child}
    ELSE {IF g.err # "none" THEN Out(g.st, InsertError(g.err))
          ELSE IF g.st.cache[self_id].node.kind # "Inner" THEN Out(g.st, Res("Panic"))
          ELSE inner_fix_up(g.st, self_id, insertion_index, child.res.sep, child.res.ident) :
             g \in FileStore_get_node(child.st, self_id)}

\* InnerNode::insert: every outcome [st, res].
RECURSIVE InnerNode_insert(_, _, _, _)
InnerNode_insert(st, self_id, key, data) ==
    UNION {
        IF g.err # "none" THEN {Out(g.st, InsertError(g.err))}
        ELSE IF g.st.cache[self_id].node.kind # "Inner" THEN {Out(g.st, Res("Panic"))}
        ELSE LET current_node == g.st.cache[self_id].node
                 found == binary_search(Slice(current_node.separators, 0, current_node.size),
                                        key)
                 insertion_index == found.idx
                 insert_child == current_node.children[insertion_index + 1]
             IN  IF found.ok THEN {Out(g.st, Res("DuplicateKey"))}
                 ELSE UNION {inner_after_child(child, self_id, insertion_index) :
                         child \in IF insert_child < 0
                                   THEN InnerNode_insert(g.st, insert_child, key, data)
                                   ELSE LeafNode_insert(g.st, insert_child, key, data)} :
        g \in FileStore_get_node(st, self_id)}

\* Node::insert as Tree::insert calls it: the node kind is told from the sign
\* of the identifier, as main.rs does.
Node_insert(st, ident, key, data) ==
    IF ident > 0 THEN LeafNode_insert(st, ident, key, data)
    ELSE InnerNode_insert(st, ident, key, data)

\* The child Node::search descends into from an inner node: children[r] when
\* the key matches the separator at position r, children[u] when it matches
\* none and u is its insertion position.
search_child(node, key) ==
    LET found == binary_search(Slice(node.separators, 0, node.size), key)
    IN  IF found.ok THEN node.children[found.idx + 1] ELSE node.children[found.idx + 1]

\* Node::search: Some(payload) as <<payload>>, None as <<>>, or an error.
RECURSIVE Node_search(_, _, _)
Node_search(st, ident, key) ==
    UNION {
        IF g.err # "none" THEN {[st |-> g.st, res |-> <<>>, err |-> g.err]}
        ELSE LET node == g.st.cache[ident].node
             IN  IF node.kind = "Leaf"
                 THEN LET found == binary_search(Slice(node.keys, 0, node.size), key)
                      IN  {[st |-> g.st,
                            res |-> IF found.ok THEN <<node.data_blocks[found.idx + 1]>>
                                    ELSE <<>>,
                            err |-> "none"]}
                 ELSE Node_search(g.st, search_child(node, key), key) :
        g \in FileStore_get_node(st, ident)}

\* -------------------------------------------------------------------- tree

\* Tree::new on a fresh file: an empty leaf is stored as the root.
Tree_new(cap) ==
    LET stored == FileStore_store_node(FileStore_new(cap), LeafNode(Zeros(S), Zeros(S), 0))
    IN  [st |-> stored.st, root |-> stored.ident]

\* A Tree::insert whose new root names the right node first and the old root
\* second.
Tree_insert_swapped(st, root, key, value) ==
    {IF o.res.tag = "NodeOverflow"
     THEN LET separators == [Zeros(S) EXCEPT ![1] = o.res.sep]
              children == [Zeros(S) EXCEPT ![1] = o.res.ident, ![2] = root]
              stored == FileStore_store_node(o.st, InnerNode(separators, children, 1))
          IN  [st |-> stored.st, root |-> stored.ident, res |-> o.res]
     ELSE IF o.res.tag \in {"Ok", "DuplicateKey"}
     THEN [st |-> o.st, root |-> root, res |-> o.res]
     ELSE [st |-> o.st, root |-> root, res |-> Res("Panic")] :
        o \in Node_insert(st, root, key, value)}

\* A Tree::insert that builds the new root over the right node alone.
Tree_insert_lost_left(st, root, key, value) ==
    {IF o.res.tag = "NodeOverflow"
     THEN [st |-> o.st, root |-> o.res.ident, res |-> o.res]
     ELSE IF o.res.tag \in {"Ok", "DuplicateKey"}
     THEN [st |-> o.st, root |-> root, res |-> o.res]
     ELSE [st |-> o.st, root |-> root, res |-> Res("Panic")] :
        o \in Node_insert(st, root, key, value)}

\* Tree::insert: every outcome [st, root, res], res the result of the insert
\* on the root.
Tree_insert(st, root, key, value) ==
    {IF o.res.tag = "NodeOverflow"
     THEN LET separators == [Zeros(S) EXCEPT ![1] = o.res.sep]
              children == [Zeros(S) EXCEPT ![1] = root, ![2] = o.res.ident]
              stored == FileStore_store_node(o.st, InnerNode(separators, children, 1))
          IN  [st |-> stored.st, root |-> stored.ident, res |-> o.res]
     ELSE IF o.res.tag \in {"Ok", "DuplicateKey"}
     THEN [st |-> o.st, root |-> root, res |-> o.res]
     ELSE [st |-> o.st, root |-> root, res |-> Res("Panic")] :
        o \in Node_insert(st, root, key, value)}

\* Tree::search: every outcome [st, res, err].
Tree_search(st, root, key) == Node_search(st, root, key)

\* A flush that drains the cache without writing its entries.
FileStore_flush_drain_only(st) == [st EXCEPT !.cache = Cache_new]

\* FileStore::flush: every cache entry is written to its block and the cache
\* is emptied.
FileStore_flush(st) ==
    [st EXCEPT !.cache = Cache_new,
               !.file = [i \in DOMAIN st.file |->
                            IF \E id \in DOMAIN st.cache : Abs(id) = i
                            THEN to_bytes(st.cache[CHOOSE id \in DOMAIN st.cache : Abs(id) = i].node)
                            ELSE st.file[i]]]

\* The metadata block: fanout, block_size, node_ident_size, search_key_size
\* as 64-bit words, then node_ctr and root_node as NodeIdent.
Metadata_to_bytes(m) ==
    LET used == to_le_bytes(m.fanout, 8) \o to_le_bytes(m.block_size, 8)
                \o to_le_bytes(m.node_ident_size, 8) \o to_le_bytes(m.search_key_size, 8)
                \o to_le_bytes(m.node_ctr, NODE_IDENT_SIZE)
                \o to_le_bytes(m.root_node, NODE_IDENT_SIZE)
    IN  used \o Zeros(BLOCK_SIZE - Len(used))

Metadata_from_bytes(block) ==
    [fanout |-> from_le_bytes(SubSeq(block, 1, 8)),
     block_size |-> from_le_bytes(SubSeq(block, 9, 16)),
     node_ident_size |-> from_le_bytes(SubSeq(block, 17, 24)),
     search_key_size |-> from_le_bytes(SubSeq(block, 25, 32)),
     node_ctr |-> from_le_bytes(SubSeq(block, 33, 32 + NODE_IDENT_SIZE)),
     root_node |-> from_le_bytes(SubSeq(block, 33 + NODE_IDENT_SIZE, 32 + 2 * NODE_IDENT_SIZE))]

\* FileStore::set_metadata: the metadata block is written at block 0.
FileStore_set_metadata(st, m) ==
    [st EXCEPT !.file = set_block(st.file, 0, Metadata_to_bytes(m))]

\* A Tree::save that writes the metadata without flushing the cache.
Tree_save_no_flush(st, root) ==
    FileStore_set_metadata(st,
        [fanout |-> S, root_node |-> root, block_size |-> BLOCK_SIZE,
         node_ctr |-> st.node_ctr, node_ident_size |-> NODE_IDENT_SIZE,
         search_key_size |-> SEARCH_KEY_SIZE])

\* Tree::save.
Tree_save(st, root) ==
    LET node_store == FileStore_flush(st)
    IN  FileStore_set_metadata(node_store,
            [fanout |-> S, root_node |-> root, block_size |-> BLOCK_SIZE,
             node_ctr |-> node_store.node_ctr, node_ident_size |-> NODE_IDENT_SIZE,
             search_key_size |-> SEARCH_KEY_SIZE])

\* The parameters compiled into this program.
Compiled ==
    [fanout |-> S, block_size |-> BLOCK_SIZE, node_ident_size |-> NODE_IDENT_SIZE,
     search_key_size |-> SEARCH_KEY_SIZE]

\* FileStore::load of the file of st by a program whose cache holds cap nodes
\* and whose compiled parameters are `compiled`: [ok, err, st, root].
FileStore_load_as(st, cap, compiled) ==
    LET block == get_block(st.file, 0)
        m == Metadata_from_bytes(block[1])
    IN  IF block = <<>> THEN [ok |-> FALSE, err |-> "IOError", st |-> st, root |-> 0]
        ELSE IF m.block_size # compiled.block_size
                \/ m.search_key_size # compiled.search_key_size
                \/ m.node_ident_size # compiled.node_ident_size
        THEN [ok |-> FALSE, err |-> "ParameterMismatch", st |-> st, root |-> 0]
        ELSE [ok |-> TRUE, err |-> "none",
              st |-> [st EXCEPT !.cache = Cache_new, !.node_ctr = m.node_ctr, !.cap = cap,
                                !.passes = 0],
              root |-> m.root_node]

FileStore_load(st, cap) == FileStore_load_as(st, cap, Compiled)

\* Tree::load.
Tree_load(st, cap) == FileStore_load(st, cap)

\* Tree::load in a program compiled with other parameters.
Tree_load_as(st, cap, compiled) == FileStore_load_as(st, cap, compiled)

\* -------------------------------------------------------------------- state

VARIABLES
    store,      \* the tree's node store (FileStore)
    root,       \* Tree.root
    inserted,   \* history: key -> the value of its first insert
    last,       \* the last operation and its result
    snap,       \* history: the tree as it was before the last save, while the file is in step
    reads,      \* operations so far that changed no node
    twin,       \* a second tree given the same operations (cache transparency)
    call        \* the insert under way, when it is followed statement by statement

vars == <<store, root, inserted, last, snap, reads, twin, call>>

Dirty == [clean |-> FALSE, st |-> FileStore_new(0), root |-> 0]

NoOp == [op |-> "new", key |-> 0, val |-> 0, res |-> "none"]

NoTwin == [st |-> FileStore_new(0), root |-> 0, res |-> "none"]

\* No insert is under way: no frame on the stack, no result travelling up.
Idle == [stack |-> << >>, key |-> 0, val |-> 0, ret |-> << >>, panic |-> "none",
         start |-> << >>]

Init ==
    /\ LET t == Tree_new(CACHE_SIZE) IN store = t.st /\ root = t.root
    /\ inserted = << >>
    /\ last = NoOp
    /\ snap = Dirty
    /\ reads = 0
    /\ twin = NoTwin
    /\ call = Idle

\* The results every outcome of search(key) can give.
SearchResults(st, r, key) ==
    {IF o.err = "none" THEN o.res ELSE <<o.err>> : o \in Tree_search(st, r, key)}

Remember(key, value) ==
    IF key \in DOMAIN inserted THEN inserted
    ELSE [k \in DOMAIN inserted \cup {key} |-> IF k = key THEN value ELSE inserted[k]]

Halted == last.res = "Panic"

\* tree.insert(key, value), on the tree under test.
InsertStep(key, value) ==
    /\ ~Halted
    /\ key \in DOMAIN inserted => reads < MaxReads
    /\ \E o \in Tree_insert(store, root, key, value) :
        /\ o.st.node_ctr <= MaxNodes
        /\ store' = o.st
        /\ root' = o.root
        /\ last' = [op |-> "insert", key |-> key, val |-> value, res |-> o.res.tag]
    /\ inserted' = Remember(key, value)
    /\ reads' = IF key \in DOMAIN inserted THEN reads + 1 ELSE reads
    /\ snap' = Dirty
    /\ UNCHANGED call

\* tree.search(key), on the tree under test.
SearchStep(key) ==
    /\ ~Halted
    /\ reads < MaxReads
    /\ \E o \in Tree_search(store, root, key) :
        /\ store' = o.st
        /\ last' = [op |-> "search", key |-> key, val |-> 0,
                    res |-> IF o.err = "none" THEN o.res ELSE <<o.err>>,
                    err |-> o.err]
    /\ reads' = reads + 1
    /\ UNCHANGED <<root, inserted, snap, call>>

\* tree.save(), on the tree under test.
SaveStep ==
    /\ ~Halted
    /\ snap' = [clean |-> TRUE, st |-> store, root |-> root]
    /\ store' = Tree_save(store, root)
    /\ last' = [op |-> "save", key |-> 0, val |-> 0, res |-> "none"]
    /\ UNCHANGED <<root, inserted, reads, call>>

Insert(key, value) == InsertStep(key, value) /\ UNCHANGED twin

Search(key) == SearchStep(key) /\ UNCHANGED twin

Save == SaveStep /\ UNCHANGED twin

\* The program ends after a save, with no insert since, and a new one opens
\* the file: Tree::load.
Load ==
    /\ ~Halted
    /\ snap.clean
    /\ LET l == Tree_load(store, CACHE_SIZE)
       IN  /\ l.ok
           /\ store' = l.st
           /\ root' = l.root
    /\ last' = [op |-> "load", key |-> 0, val |-> 0, res |-> "none"]
    /\ UNCHANGED <<inserted, snap, reads, twin, call>>

\* The parameters other builds of the program are compiled with: one of the
\* four differs from this build's.
OtherBuilds ==
    {[Compiled EXCEPT !.fanout = S + 2],
     [Compiled EXCEPT !.block_size = 2 * BLOCK_SIZE],
     [Compiled EXCEPT !.node_ident_size = 2 * NODE_IDENT_SIZE],
     [Compiled EXCEPT !.search_key_size = SEARCH_KEY_SIZE \div 2]}

\* After a save, a build with other parameters opens the file: Tree::load
\* there.  Only its outcome is kept; this build's tree goes on unchanged.
LoadElsewhere(compiled) ==
    /\ ~Halted
    /\ snap.clean
    /\ last.op # "reload"
    /\ LET l == Tree_load_as(store, CACHE_SIZE, compiled)
       IN  last' = [op |-> "reload", key |-> 0, val |-> 0,
                    res |-> IF l.ok THEN "Ok" ELSE l.err, compiled |-> compiled]
    /\ UNCHANGED <<store, root, inserted, snap, reads, twin, call>>

Next ==
    \/ \E key \in Keys :
        \E value \in (IF key \in DOMAIN inserted THEN Vals ELSE {FirstVal}) :
            Insert(key, value)
    \/ \E key \in Keys : Search(key)
    \/ Save
    \/ Load
    \/ \E compiled \in OtherBuilds : LoadElsewhere(compiled)

Spec == Init /\ [][Next]_vars

\* ------------------------------------------------ the reserved key offered

\* The same program when its caller also offers the reserved key 0, beside
\* the keys below MaxKey.
KeysAndZero == (Keys \ {MaxKey}) \cup {0}

NextZero ==
    \/ \E key \in KeysAndZero :
        \E value \in (IF key \in DOMAIN inserted THEN Vals ELSE {FirstVal}) :
            Insert(key, value)
    \/ \E key \in Keys : Search(key)
    \/ Save

SpecZero == Init /\ [][NextZero]_vars

\* ----------------------------------------------------- a write that fails

\* The file system refuses the next write-back (the disk is full, the write
\* is short).
WriteWillFail ==
    /\ ~Halted
    /\ ~store.wb_fails
    /\ ~store.wb_failed
    /\ store' = [store EXCEPT !.wb_fails = TRUE]
    /\ UNCHANGED <<root, inserted, last, snap, reads, twin, call>>

NextFail ==
    \/ \E key \in Keys :
        \E value \in (IF key \in DOMAIN inserted THEN Vals ELSE {FirstVal}) :
            Insert(key, value)
    \/ \E key \in Keys : Search(key)
    \/ WriteWillFail

SpecFail == Init /\ [][NextFail]_vars

\* ------------------------------------------------- two builds side by side

\* A cache that never evicts: it holds more nodes than the store allocates.
BigCache == MaxNodes + 1

\* The tree under test is built with CACHE_SIZE = 1, its twin with a cache
\* that never evicts; both are given the same operations.
InitTwin ==
    /\ LET t == Tree_new(1) IN store = t.st /\ root = t.root
    /\ LET t == Tree_new(BigCache) IN twin = [st |-> t.st, root |-> t.root, res |-> "none"]
    /\ inserted = << >>
    /\ last = NoOp
    /\ snap = Dirty
    /\ reads = 0
    /\ call = Idle

InsertBoth(key, value) ==
    /\ InsertStep(key, value)
    /\ \E o \in Tree_insert(twin.st, twin.root, key, value) :
        twin' = [st |-> o.st, root |-> o.root, res |-> o.res.tag]

SearchBoth(key) ==
    /\ SearchStep(key)
    /\ \E o \in Tree_search(twin.st, twin.root, key) :
        twin' = [st |-> o.st, root |-> twin.root,
                 res |-> IF o.err = "none" THEN o.res ELSE <<o.err>>]

SaveBoth ==
    /\ SaveStep
    /\ twin' = [st |-> Tree_save(twin.st, twin.root), root |-> twin.root, res |-> "none"]

NextTwin ==
    \/ \E key \in Keys :
        \E value \in (IF key \in DOMAIN inserted THEN Vals ELSE {FirstVal}) :
            InsertBoth(key, value)
    \/ \E key \in Keys : SearchBoth(key)
    \/ SaveBoth

SpecTwin == InitTwin /\ [][NextTwin]_vars

\* ------------------------------------------- an insert, statement by statement

\* The insert of Tree::insert followed through the recursion of
\* InnerNode::insert and LeafNode::insert.  call.stack holds one frame per
\* activation, the innermost last: [fn, ident, pc, idx, child, sep, right,
\* holds, node, evicted].  holds tells that the frame's RefMut of the shared
\* store (node_store) is alive; node is the node seen through the handle of
\* the first get_node, evicted whether the cache had lost the node when the
\* frame came to acquire it again.  call.ret is the InsertionResult
\* travelling up, call.start the store and root when the insert began.

Frame(ident) ==
    [fn |-> IF ident < 0 THEN "Inner" ELSE "Leaf", ident |-> ident, pc |-> "borrow",
     idx |-> 0, child |-> 0, sep |-> 0, right |-> 0, holds |-> FALSE,
     node |-> << >>, evicted |-> FALSE]

Top == call.stack[Len(call.stack)]

SetTop(frame) == [call.stack EXCEPT ![Len(call.stack)] = frame]

Pop == SubSeq(call.stack, 1, Len(call.stack) - 1)

\* The borrow flag of the RefCell: some RefMut of the store is alive.
Borrowed == \E i \in DOMAIN call.stack : call.stack[i].holds

Running == call.stack # << >> /\ call.panic = "none"

\* `return res`: the activation ends, its RefMut is dropped with its frame.
Return(res) == [call EXCEPT !.stack = Pop, !.ret = <<res>>]

Panics(what) == [call EXCEPT !.panic = what]

\* An InnerNode::insert whose node_store is declared in the function body
\* and so lives to the end of the function.
drop_node_store_at_return(frame) == frame

\* The end of the block of InnerNode::insert that holds the first borrow:
\* node_store goes out of scope and the RefMut is dropped.
drop_node_store(frame) == [frame EXCEPT !.holds = FALSE]

\* The builds whose insert is followed by statement: this one, and one whose
\* cache holds a single node, so that every get_node of a child evicts the
\* parent.
StepCaches == {1, CACHE_SIZE}

\* The keys offered when the insert is followed by statement.  The build with
\* the single-node cache, whose evictions leave no choice of victim, is
\* followed one key further than Keys, so that a key is inserted into a tree
\* of three levels and an inner node below the root is split.
StepKeys == Keys \cup {MaxKey + 1}

StepNodes == MaxNodes + 4

\* Tree::insert calls Node::insert on the root.
Call(key, value) ==
    /\ ~Halted
    /\ call = Idle
    /\ key \in Keys \/ store.cap < CACHE_SIZE
    /\ key \in DOMAIN inserted => reads < MaxReads
    /\ \A o \in Tree_insert(store, root, key, value) : o.st.node_ctr <= StepNodes
    /\ call' = [Idle EXCEPT !.stack = <<Frame(root)>>, !.key = key, !.val = value,
                            !.start = [st |-> store, root |-> root]]
    /\ UNCHANGED <<store, root, inserted, last, snap, reads, twin>>

\* shared_node_store.borrow_mut(), at the start of InnerNode::insert and of
\* LeafNode::insert and after the child has returned NodeOverflow: it panics
\* when a RefMut is alive.
BorrowMut ==
    /\ Running
    /\ Top.pc \in {"borrow", "reborrow"}
    /\ call' = IF Borrowed THEN Panics("BorrowMutError")
               ELSE [call EXCEPT !.stack = SetTop(
                        [Top EXCEPT !.holds = TRUE,
                                    !.pc = IF Top.pc = "reborrow" THEN "get"
                                           ELSE IF Top.fn = "Inner" THEN "look"
                                           ELSE "body",
                                    !.evicted = Top.pc = "reborrow"
                                                /\ Top.ident \notin DOMAIN store.cache])]
    /\ UNCHANGED <<store, root, inserted, last, snap, reads, twin>>

\* The block of InnerNode::insert that finds the child to descend into.
Look ==
    /\ Running
    /\ Top.fn = "Inner" /\ Top.pc = "look"
    /\ \E g \in FileStore_get_node(store, Top.ident) :
        /\ store' = g.st
        /\ call' =
            IF g.err # "none" THEN Return(InsertError(g.err))
            ELSE IF g.st.cache[Top.ident].node.kind # "Inner"
            THEN Panics("Expected Inner node, got leaf")
            ELSE LET current_node == g.st.cache[Top.ident].node
                     found == binary_search(
                                  Slice(current_node.separators, 0, current_node.size),
                                  call.key)
                 IN  IF found.ok THEN Return(Res("DuplicateKey"))
                     ELSE [call EXCEPT !.stack = SetTop(drop_node_store(
                              [Top EXCEPT !.pc = "descend",
                                          !.idx = found.idx,
                                          !.child = current_node.children[found.idx + 1],
                                          !.node = current_node]))]
    /\ UNCHANGED <<root, inserted, last, snap, reads, twin>>

\* The recursive call of InnerNode::insert, by the sign of insert_child.
Descend ==
    /\ Running
    /\ Top.pc = "descend"
    /\ call' = [call EXCEPT !.stack = Append(SetTop([Top EXCEPT !.pc = "wait"]),
                                             Frame(Top.child))]
    /\ UNCHANGED <<store, root, inserted, last, snap, reads, twin>>

\* LeafNode::insert after its borrow_mut.
LeafBody ==
    /\ Running
    /\ Top.fn = "Leaf" /\ Top.pc = "body"
    /\ \E o \in LeafNode_insert(store, Top.ident, call.key, call.val) :
        /\ store' = o.st
        /\ call' = IF o.res.tag = "Panic" THEN Panics("Expected Leaf node, got inner")
                   ELSE Return(o.res)
    /\ UNCHANGED <<root, inserted, last, snap, reads, twin>>

\* The match on the child's result in InnerNode::insert: NodeOverflow is
\* taken apart, any other result is returned as it is.
AfterChild ==
    /\ Running
    /\ Top.pc = "wait"
    /\ call.ret # << >>
    /\ call' = IF call.ret[1].tag = "NodeOverflow"
               THEN [call EXCEPT !.stack = SetTop([Top EXCEPT !.pc = "reborrow",
                                                              !.sep = call.ret[1].sep,
                                                              !.right = call.ret[1].ident]),
                                 !.ret = << >>]
               ELSE Return(call.ret[1])
    /\ UNCHANGED <<store, root, inserted, last, snap, reads, twin>>

\* The second get_node of InnerNode::insert.
GetAgain ==
    /\ Running
    /\ Top.pc = "get"
    /\ \E g \in FileStore_get_node(store, Top.ident) :
        /\ store' = g.st
        /\ call' = IF g.err # "none" THEN Return(InsertError(g.err))
                   ELSE IF g.st.cache[Top.ident].node.kind # "Inner"
                   THEN Panics("Expected Inner node, got leaf")
                   ELSE [call EXCEPT !.stack = SetTop([Top EXCEPT !.pc = "fix"])]
    /\ UNCHANGED <<root, inserted, last, snap, reads, twin>>

\* The rest of InnerNode::insert: the separator and the right node are put
\* into the node, which is split if they do not fit.
FixUp ==
    /\ Running
    /\ Top.pc = "fix"
    /\ LET o == inner_fix_up(store, Top.ident, Top.idx, Top.sep, Top.right)
       IN  store' = o.st /\ call' = Return(o.res)
    /\ UNCHANGED <<root, inserted, last, snap, reads, twin>>

\* The match of Tree::insert on the result of the insert into the root.
Finish ==
    /\ call.panic = "none"
    /\ call.stack = << >>
    /\ call.ret # << >>
    /\ LET res == call.ret[1]
           separators == [Zeros(S) EXCEPT ![1] = res.sep]
           children == [Zeros(S) EXCEPT ![1] = root, ![2] = res.ident]
           stored == FileStore_store_node(store, InnerNode(separators, children, 1))
       IN  IF res.tag \in {"Ok", "DuplicateKey"}
           THEN /\ call' = Idle
                /\ last' = [op |-> "insert", key |-> call.key, val |-> call.val,
                            res |-> res.tag]
                /\ UNCHANGED <<store, root>>
           ELSE IF res.tag = "NodeOverflow"
           THEN /\ call' = Idle
                /\ store' = stored.st
                /\ root' = stored.ident
                /\ last' = [op |-> "insert", key |-> call.key, val |-> call.val,
                            res |-> res.tag]
           ELSE /\ call' = Panics("Bye")
                /\ last' = [op |-> "insert", key |-> call.key, val |-> call.val,
                            res |-> "Panic"]
                /\ UNCHANGED <<store, root>>
    /\ inserted' = Remember(call.key, call.val)
    /\ reads' = IF call.key \in DOMAIN inserted THEN reads + 1 ELSE reads
    /\ UNCHANGED <<snap, twin>>

NextSteps ==
    \/ \E key \in StepKeys :
        \E value \in (IF key \in DOMAIN inserted THEN Vals ELSE {FirstVal}) :
            Call(key, value)
    \/ BorrowMut
    \/ Look
    \/ Descend
    \/ LeafBody
    \/ AfterChild
    \/ GetAgain
    \/ FixUp
    \/ Finish

InitSteps ==
    /\ \E cap \in StepCaches : LET t == Tree_new(cap) IN store = t.st /\ root = t.root
    /\ inserted = << >>
    /\ last = NoOp
    /\ snap = Dirty
    /\ reads = 0
    /\ twin = NoTwin
    /\ call = Idle

SpecSteps == InitSteps /\ [][NextSteps]_vars

\* ------------------------------------------------------ the tree as stored

\* The node the store holds for ident, as get_node would find it: the cache
\* entry, else the block decoded by the sign of ident.
NodeAt(st, ident) ==
    IF ident \in DOMAIN st.cache THEN st.cache[ident].node
    ELSE IF ident < 0 THEN InnerNode_from_bytes(st.file[Abs(ident)])
    ELSE LeafNode_from_bytes(st.file[Abs(ident)])

\* The identifiers store_node has issued.
Issued(st) == {st.issued[k].ident : k \in DOMAIN st.issued}

InnerIdents(st) == {id \in Issued(st) : id < 0}

LeafIdents(st) == {id \in Issued(st) : id > 0}

\* The live children of an inner node: slots 0 ..= size.
LiveChildren(node) == {node.children[i] : i \in 1 .. node.size + 1}

\* The keys stored in the leaves of the subtree under ident.
RECURSIVE SubtreeKeys(_, _)
SubtreeKeys(st, ident) ==
    LET node == NodeAt(st, ident)
    IN  IF ident > 0 THEN {node.keys[i] : i \in 1 .. node.size}
        ELSE UNION {SubtreeKeys(st, node.children[i]) : i \in 1 .. node.size + 1}

\* The depths (root = 1) at which the leaves of the subtree under ident lie.
RECURSIVE LeafDepths(_, _, _)
LeafDepths(st, ident, depth) ==
    IF ident > 0 THEN {depth}
    ELSE LET node == NodeAt(st, ident)
         IN  UNION {LeafDepths(st, node.children[i], depth + 1) : i \in 1 .. node.size + 1}

\* The height of the tree: the depth of its leftmost leaf.
RECURSIVE LeftDepth(_, _)
LeftDepth(st, ident) ==
    IF ident > 0 THEN 1 ELSE 1 + LeftDepth(st, NodeAt(st, ident).children[1])

Height == LeftDepth(store, root)

StrictlyAscending(arr, n) == \A i \in 1 .. n - 1 : arr[i] < arr[i + 1]

\* ------------------------------------------------------------------ claims

\* Every node the store has allocated, as stored.
Nodes(st) == [id \in Issued(st) |-> NodeAt(st, id)]

\* C1: a search for an inserted key returns Some(the value it was inserted
\* with), whatever splits the inserts caused.
C1_InsertThenSearch ==
    (last.op = "search" /\ last.key \in DOMAIN inserted)
        => last.res = <<inserted[last.key]>>

\* C2: a search for a non-zero key that was never inserted returns None.
C2_AbsentKeyIsNone ==
    (last.op = "search" /\ last.key \notin DOMAIN inserted) => last.res = << >>

\* An absent key was searched in a tree that holds keys and has split, so
\* that the search went through an inner root.
C2_Witness ==
    /\ last.op = "search"
    /\ last.key \notin DOMAIN inserted
    /\ last.res = << >>
    /\ root < 0
    /\ DOMAIN inserted # {}

\* C3: inserting a key that is already in the tree yields DuplicateKey,
\* changes no node and not the root, and a search for the key still returns
\* the value of its first insert.
C3_DuplicateIsNoOp ==
    [][(last'.op = "insert" /\ last'.key \in DOMAIN inserted)
        => /\ last'.res = "DuplicateKey"
           /\ root' = root
           /\ Nodes(store') = Nodes(store)
           /\ SearchResults(store', root', last'.key) = {<<inserted[last'.key]>>}]_vars

\* C4: after save and load of the same file, a search returns for every key
\* what it returned on the tree before the save.
C4_SaveLoadRoundTrip ==
    last.op = "load"
        => \A k \in Keys :
              SearchResults(store, root, k) = SearchResults(snap.st, snap.root, k)

\* A tree of three levels, whose cache held nodes at the save, was loaded.
C4_Witness ==
    /\ last.op = "load"
    /\ Height >= 3
    /\ DOMAIN snap.st.cache # {}
    /\ \E k \in Keys : SearchResults(store, root, k) # {<< >>}

\* C5: the same inserts and searches followed by save give, with CACHE_SIZE = 1
\* and with a cache that never evicts, the same result for every search and
\* the same file: every node block, the root and node_ctr.
C5_CacheTransparency ==
    /\ last.op = "search" => last.res = twin.res
    /\ last.op = "save" =>
        /\ store.file = twin.st.file
        /\ root = twin.root
        /\ store.node_ctr = twin.st.node_ctr

\* Both builds saved a tree of three levels, which the build with
\* CACHE_SIZE = 1 cannot walk without evicting, and wrote the same file.
C5_Witness ==
    /\ last.op = "save"
    /\ Height >= 3
    /\ store.cap = 1
    /\ twin.st.cap > store.node_ctr
    /\ store.file = twin.st.file

\* C6: for every inner node and every live separator sep[i], the keys stored
\* under children[i] are < sep[i] and those under children[i+1] are >= sep[i].
C6_Routing ==
    \A id \in InnerIdents(store) :
        LET node == NodeAt(store, id)
        IN  \A i \in 1 .. node.size :
                /\ \A k \in SubtreeKeys(store, node.children[i]) : k < node.separators[i]
                /\ \A k \in SubtreeKeys(store, node.children[i + 1]) : k >= node.separators[i]

\* An inner node has split: the tree has three levels and every key of the
\* model is stored under its root.
C6_Witness ==
    /\ Height >= 3
    /\ NodeAt(store, root).size >= 1
    /\ SubtreeKeys(store, root) = Keys

C9_Balance ==
    /\ [](Cardinality(LeafDepths(store, root, 1)) = 1)
    /\ [][/\ Height' # Height => last'.op = "insert" /\ last'.res = "NodeOverflow"
          /\ (last'.op = "insert" /\ last'.res \in {"Ok", "DuplicateKey"}) => Height' = Height
          /\ (last'.op = "insert" /\ last'.res = "NodeOverflow") => Height' = Height + 1]_vars

\* The root overflowed a second time: the tree grew to three levels.
C9_Witness ==
    /\ last.op = "insert"
    /\ last.res = "NodeOverflow"
    /\ Height = 3
    /\ Cardinality(LeafDepths(store, root, 1)) = 1

\* C10: store_node allocates a block index greater than all earlier ones, so
\* at most one of +k and -k is issued; the node held for an identifier is an
\* inner node iff the identifier is negative; every child identifier of an
\* inner node is an issued one, with the sign of the node it names.
C10_IdentDiscipline ==
    /\ \A i, j \in DOMAIN store.issued :
        i < j => Abs(store.issued[i].ident) < Abs(store.issued[j].ident)
    /\ \A i \in DOMAIN store.issued :
        LET id == store.issued[i].ident
        IN  /\ Abs(id) \in 1 .. store.node_ctr
            /\ store.issued[i].kind = "Inner" <=> id < 0
            /\ id \in DOMAIN store.cache =>
                (store.cache[id].node.kind = "Inner" <=> id < 0)
    /\ \A id \in DOMAIN store.cache : id \in Issued(store)
    /\ root \in Issued(store)
    /\ \A id \in InnerIdents(store) : LiveChildren(NodeAt(store, id)) \subseteq Issued(store)

\* Leaves and inner nodes were allocated in turn, and an inner node names an
\* inner child and another a leaf child.
C10_Witness ==
    /\ \E i, j, k \in DOMAIN store.issued :
        /\ i < j /\ j < k
        /\ store.issued[i].ident < 0
        /\ store.issued[j].ident > 0
        /\ store.issued[k].ident < 0
    /\ \E id \in LiveChildren(NodeAt(store, root)) : id < 0

\* NodeInstance::from_bytes as get_node decodes a block: by the kind asked for.
from_bytes(kind, block) ==
    IF kind = "Inner" THEN InnerNode_from_bytes(block) ELSE LeafNode_from_bytes(block)

RoundTrips(node) == from_bytes(node.kind, to_bytes(node)) = node

\* C11: every node the inserts produce, whether handed to store_node or held
\* mutated in the cache, is given back unchanged by decoding its encoded
\* block: same size, same key array, same identifier array.
C11_CodecRoundTrip ==
    /\ \A i \in DOMAIN store.issued : RoundTrips(store.issued[i].node)
    /\ \A id \in DOMAIN store.cache : RoundTrips(store.cache[id].node)

\* Right halves of a leaf split and of an inner split were stored, and a
\* cached leaf holds the negative key.
C11_Witness ==
    /\ \E i \in DOMAIN store.issued :
        store.issued[i].kind = "Leaf" /\ store.issued[i].node.size = S \div 2 + 1
    /\ \E i \in DOMAIN store.issued :
        /\ store.issued[i].kind = "Inner"
        /\ store.issued[i].ident # root
        /\ store.issued[i].node.size = S \div 2
    /\ \E id \in DOMAIN store.cache :
        LET node == store.cache[id].node
        IN  node.kind = "Leaf" /\ node.size >= 1 /\ node.keys[1] = -1

C13_MismatchRejected ==
    (last.op = "reload" /\ last.compiled # Compiled) => last.res = "ParameterMismatch"

\* The part of C13 that the load of spec 4.1 does give: a mismatch of
\* block_size, search_key_size or node_ident_size is rejected.
C13_SizesRejected ==
    (last.op = "reload"
        /\ \/ last.compiled.block_size # BLOCK_SIZE
           \/ last.compiled.search_key_size # SEARCH_KEY_SIZE
           \/ last.compiled.node_ident_size # NODE_IDENT_SIZE)
        => last.res = "ParameterMismatch"

\* C14: an insert with the reserved key 0 changes no node and no size field,
\* and every key inserted before it is still found with its value afterwards.
C14_ZeroRejected ==
    [][(last'.op = "insert" /\ last'.key = 0)
        => /\ root' = root
           /\ Nodes(store') = Nodes(store)
           /\ \A k \in DOMAIN inserted \ {0} :
                SearchResults(store', root', k) = {<<inserted[k]>>}]_vars

\* The leaf an insert of a key that equals no separator descends to from
\* ident, and the inner nodes it passes on the way.
RECURSIVE TargetLeaf(_, _, _)
TargetLeaf(st, ident, key) ==
    IF ident > 0 THEN ident
    ELSE LET node == NodeAt(st, ident)
             found == binary_search(Slice(node.separators, 0, node.size), key)
         IN  TargetLeaf(st, node.children[found.idx + 1], key)

RECURSIVE InsertPath(_, _, _)
InsertPath(st, ident, key) ==
    IF ident > 0 THEN << >>
    ELSE LET node == NodeAt(st, ident)
             found == binary_search(Slice(node.separators, 0, node.size), key)
         IN  <<ident>> \o InsertPath(st, node.children[found.idx + 1], key)

\* The (key, payload) pairs in the live slots of a leaf.
Pairs(leaf) == {<<leaf.keys[i], leaf.data_blocks[i]>> : i \in 1 .. leaf.size}

LiveKeys(leaf) == {leaf.keys[i] : i \in 1 .. leaf.size}

\* The identifier store_node issued n-th in this step, counted from 1.
Fresh(n) == store'.issued[Len(store.issued) + n].ident

InsertAt(seq, i, x) == SubSeq(seq, 1, i) \o <<x>> \o SubSeq(seq, i + 1, Len(seq))

\* The inner node directly above the leaf an insert of key descends to.
ParentOfTarget(st, r, key) == InsertPath(st, r, key)[Len(InsertPath(st, r, key))]

C17_RootPromotion ==
    [][last'.op = "insert" =>
        /\ last'.res \in {"Ok", "DuplicateKey"} => root' = root
        /\ last'.res = "NodeOverflow" =>
            /\ root' < 0
            /\ root' = store'.issued[Len(store'.issued)].ident
            /\ root' \notin Issued(store)
            /\ \E o \in Node_insert(store, root, last'.key, last'.val) :
                /\ o.res.tag = "NodeOverflow"
                /\ store'.issued[Len(store'.issued)].node =
                    InnerNode([i \in 1 .. S |-> IF i = 1 THEN o.res.sep ELSE 0],
                              [i \in 1 .. S |-> IF i = 1 THEN root
                                                ELSE IF i = 2 THEN o.res.ident ELSE 0],
                              1)
                /\ NodeAt(store', root') = store'.issued[Len(store'.issued)].node
                /\ o.res.ident = store'.issued[Len(store'.issued) - 1].ident]_vars

\* A new root was stored above an inner root that had overflowed.
C17_Witness ==
    /\ last.op = "insert"
    /\ last.res = "NodeOverflow"
    /\ root < 0
    /\ NodeAt(store, root).size = 1
    /\ NodeAt(store, root).children[1] < 0
    /\ NodeAt(store, root).children[2] < 0

\* C18: in an inner node search descends into children[r] when the key equals
\* the separator at position r and into children[u] when it matches none and
\* u is its insertion position; in both cases that child is the one whose
\* subtree holds the key, if the key is in the tree.
C18_SearchRouting ==
    \A id \in InnerIdents(store) :
        \A k \in SubtreeKeys(store, id) :
            k \in SubtreeKeys(store, search_child(NodeAt(store, id), k))

\* Payload identifiers a caller may hand to insert, the empty-slot value 0 and
\* the ends of the 32-bit range among them.
Payloads == Vals \cup {0, -2147483647 - 1, 2147483647}

\* C19: the cascade of the key array and that of the payload array of a leaf,
\* and those of separators[0..S-1] and children[0..S] of an inner node, either
\* both overflow or both do not: no insert of a new non-zero key, whatever
\* its payload identifier, returns the mismatched-overflow error.
C19_SimultaneousOverflow ==
    /\ last.op = "insert" => last.res \in {"Ok", "NodeOverflow", "DuplicateKey"}
    /\ \A key \in Keys \ DOMAIN inserted :
        \A data \in Payloads :
            \A o \in Node_insert(store, root, key, data) : o.res.tag # "Error"

\* A full leaf lies below a full inner root: the next insert overflows the
\* two arrays of the leaf and then the two arrays of the root together.
C19_Witness ==
    /\ root < 0
    /\ NodeAt(store, root).size = S - 1
    /\ \E key \in Keys \ DOMAIN inserted :
        /\ NodeAt(store, TargetLeaf(store, root, key)).size = S
        /\ \E o \in Node_insert(store, root, key, 0) : o.res.tag = "NodeOverflow"

\* The last operation ended in a panic or returned WriteFailed.
Surfaced ==
    \/ last.op = "insert" /\ last.res = "Panic"
    \/ last.op = "search" /\ last.err = "WriteFailed"

\* C20: when the write of an evicted node to its block fails, get_node does
\* not return a handle as if it had succeeded: the operation ends with
\* WriteFailed or the process aborts, and the latest version of the evicted
\* node is never silently lost.
C20_FailedWriteBackIsFatal ==
    /\ store.wb_failed => Surfaced
    /\ ~Surfaced => \A id \in Issued(store) : NodeAt(store, id) = store.latest[id]

\* The least chances counter of a cache.
MinChances(nodes) ==
    CHOOSE c \in {nodes[id].chances : id \in DOMAIN nodes} :
        \A id \in DOMAIN nodes : c <= nodes[id].chances

\* C21: eviction terminates.  Every sweep run so far selected a victim within
\* CHANCE_MAX + 1 passes; no counter exceeds CHANCE_MAX; and on the cache as
\* it stands, when at capacity, the sweep of cache_node selects a cached
\* entry whatever the iteration order, in the pass after the least counter
\* has been driven to zero.
C21_EvictionTerminates ==
    /\ store.passes <= PassLimit
    /\ \A id \in DOMAIN store.cache : store.cache[id].chances \in 0 .. CHANCE_MAX
    /\ Cardinality(DOMAIN store.cache) = store.cap =>
            \A o \in IterOrders(store.cache) :
                LET swept == page_out(store.cache, o, 1, 1)
                IN  /\ swept.remove \in DOMAIN store.cache
                    /\ swept.nodes[swept.remove].chances = 0
                    /\ swept.passes = MinChances(store.cache) + 1
                    /\ swept.passes <= PassLimit

\* A sweep has needed more than one pass to select its victim, and the cache
\* is at capacity again with every counter above zero.
C21_Witness ==
    /\ store.passes >= 2
    /\ Cardinality(DOMAIN store.cache) = CACHE_SIZE
    /\ MinChances(store.cache) >= 1

\* C22: the cache holds at most CACHE_SIZE entries.  A cache_node call (made
\* by get_node on a miss) at capacity displaces exactly one entry, a cached
\* one and not the one inserted; below capacity it displaces none; and after
\* get_node returns, the node asked for is in the cache.
C22_CacheCapacity ==
    /\ Cardinality(DOMAIN store.cache) <= CACHE_SIZE
    /\ \A id \in Issued(store) \ DOMAIN store.cache :
         \A c \in Cache_cache_node(store.cache, CACHE_SIZE, id, NodeAt(store, id)) :
            /\ id \in DOMAIN c.nodes
            /\ c.nodes[id].node = NodeAt(store, id)
            /\ IF Cardinality(DOMAIN store.cache) = CACHE_SIZE
               THEN /\ c.ret # <<>>
                    /\ c.ret[1] # id
                    /\ c.ret[1] \in DOMAIN store.cache
                    /\ c.ret[2] = store.cache[c.ret[1]].node
                    /\ DOMAIN c.nodes = (DOMAIN store.cache \ {c.ret[1]}) \cup {id}
               ELSE /\ c.ret = <<>>
                    /\ DOMAIN c.nodes = DOMAIN store.cache \cup {id}
    /\ \A id \in Issued(store) :
         \A g \in FileStore_get_node(store, id) :
            /\ g.err = "none"
            /\ id \in DOMAIN g.st.cache
            /\ Cardinality(DOMAIN g.st.cache) <= CACHE_SIZE

\* An insert has evicted a node: the cache is at capacity and a node the
\* store has allocated is outside it.
C22_Witness ==
    /\ last.op = "insert"
    /\ store.passes >= 1
    /\ Cardinality(DOMAIN store.cache) = CACHE_SIZE
    /\ Issued(store) \ DOMAIN store.cache # {}

\* Every allocated node's block in the file of st holds the encoding of the
\* node as last written.
FileConsistent(st) ==
    \A id \in Issued(st) :
        /\ Abs(id) \in DOMAIN st.file
        /\ st.file[Abs(id)] = to_bytes(st.latest[id])

Fetchable(st, ident) ==
    /\ ident \in Issued(st)
    /\ ident \in DOMAIN st.cache \/ Abs(ident) \in DOMAIN st.file
    /\ \A g \in FileStore_get_node(st, ident) :
          g.err = "none" /\ g.st.cache[ident].node = st.latest[ident]

\* With r the root, no inner node of st holds a child identifier that get_node
\* cannot fetch.
NoDangling(st, r) ==
    /\ Fetchable(st, r)
    /\ \A id \in InnerIdents(st) :
          \A i \in 1 .. S :
              NodeAt(st, id).children[i] # 0 => Fetchable(st, NodeAt(st, id).children[i])

\* C24: the root and every non-zero child identifier of every inner node can
\* be fetched; and whenever the insert of a new key into the root, into an
\* inner node on its path or into its leaf returns NodeOverflow(sep, ident),
\* then at that point (before the parent has taken the identifier) the right
\* node is already stored under ident, as the node store_node issued last,
\* and still no identifier dangles.
C24_PublishBeforeOverflow ==
    /\ NoDangling(store, root)
    /\ \A key \in Keys \ DOMAIN inserted :
          LET path == InsertPath(store, root, key)
              on_path == {path[i] : i \in DOMAIN path} \cup {TargetLeaf(store, root, key)}
          IN  \A ident \in on_path :
                \A o \in Node_insert(store, ident, key, FirstVal) :
                    o.res.tag = "NodeOverflow" =>
                        /\ Fetchable(o.st, o.res.ident)
                        /\ o.st.issued[Len(o.st.issued)].ident = o.res.ident
                        /\ o.res.ident \notin Issued(store)
                        /\ NoDangling(o.st, root)

\* The tree is three levels high and the last insert split a leaf and the
\* root above it: two NodeOverflow results were passed up.
C24_Witness ==
    /\ last.op = "insert"
    /\ last.res = "NodeOverflow"
    /\ Height = 3
    /\ Cardinality(InnerIdents(store)) >= 3

\* The keys of a leaf, the separators of an inner node.
KeySlots(node) == IF node.kind = "Inner" THEN node.separators ELSE node.keys

\* The slots below size, and only those, are non-zero; in an inner node the
\* last separator slot is zero and the child slots 0 ..= size, and only
\* those, are non-zero.
SentinelTail(node) ==
    /\ \A i \in 1 .. S : (KeySlots(node)[i] # 0) <=> (i <= node.size)
    /\ node.size = LeadingNonZero(KeySlots(node), 0)
    /\ node.kind = "Inner" =>
          /\ node.separators[S] = 0
          /\ \A i \in 1 .. S : (node.children[i] # 0) <=> (i <= node.size + 1)

\* C26: in every node of the store, as get_node finds it and as last written,
\* size is the number of leading non-zero keys or separators, every slot from
\* size on is 0 (slot S - 1 of an inner node always), and exactly the child
\* slots 0 ..= size of an inner node are non-zero.
C26_SentinelTail ==
    \A id \in Issued(store) :
        /\ SentinelTail(NodeAt(store, id))
        /\ SentinelTail(store.latest[id])

\* The tree is three levels high: leaves and an inner node have been split,
\* so slots that held keys, separators and children have been emptied.
C26_Witness ==
    /\ Height = 3
    /\ \E id \in InnerIdents(store) : NodeAt(store, id).size = S \div 2 - 1
    /\ \E id \in LeafIdents(store) : NodeAt(store, id).size = S \div 2
    /\ \E id \in LeafIdents(store) : NodeAt(store, id).size = S

\* The least of a non-empty set of keys.
Smallest(keys) == CHOOSE k \in keys : \A x \in keys : k <= x

C25_HandleDiscipline ==
    /\ [](/\ call.panic = "none"
          /\ \A i \in DOMAIN call.stack :
                /\ call.stack[i].holds => i = Len(call.stack)
                /\ call.stack[i].pc \in {"borrow", "descend", "wait", "reborrow"}
                       => ~call.stack[i].holds
                /\ call.stack[i].pc = "fix" =>
                       /\ call.stack[i].holds
                       /\ store.cache[call.stack[i].ident].node = call.stack[i].node
                       /\ store.cache[call.stack[i].ident].node
                              = store.latest[call.stack[i].ident])
    /\ [][call.ret # << >> /\ call.stack = << >> /\ call' = Idle =>
             [st |-> store', root |-> root', res |-> call.ret[1]]
                 \in Tree_insert(call.start.st, call.start.root, call.key, call.val)]_vars

\* An inner node below the root has acquired its handle again after its leaf
\* returned NodeOverflow, the cache having evicted it during the call, while
\* the root's activation waits for it.
C25_Witness ==
    /\ Running
    /\ Len(call.stack) = 2
    /\ call.stack[1].pc = "wait"
    /\ Top.pc = "fix"
    /\ Top.evicted

====
